---- MODULE Spec2Model ----
(***************************************************************************)
(* PCFG induction (deduce_grammar), the unknown-word tagger                *)
(* (rulebased_postag), the CKY chart parser (cky_parser, check_unaries)    *)
(* and the Viterbi extractor (viterbi) of project1/src/parsing.py.         *)
(*                                                                         *)
(* Two specifications share the module:                                    *)
(*   SpecInduce  deduce_grammar run on a corpus of trees;                  *)
(*   Spec        cky_parser followed by viterbi on a grammar and tokens.   *)
(*                                                                         *)
(* Probabilities are Decimal values in the source; they are modelled as    *)
(* exact rationals <<numerator, denominator>> in lowest terms.             *)
(***************************************************************************)
EXTENDS Integers, Sequences, FiniteSets, TLC

VARIABLES
    \* ---- deduce_grammar ----
    corpus,               \* tree_collection
    queue,                \* the work list of nodes
    rules,                \* rules[node_label][key]
    terminal_symbols,
    nonterminal_symbols,
    start_symbol,
    reverse_lookup,       \* reverse_lookup[key][node_label]
    parts_of_speech,
    pos_copy,             \* labels of parts_of_speech.copy() still to visit
    ipc,                  \* position in deduce_grammar
    \* ---- cky_parser / viterbi ----
    grammar,
    tokens,
    chart,
    phase,                \* position in cky_parser / viterbi
    index,                \* token index of the seeding loop
    span, begin, split,   \* loop variables of the span loops
    after,                \* where check_unaries returns to
    unknown_word,         \* the token last given to rulebased_postag
    possible_tags,        \* last result of rulebased_postag
    tree,                 \* the value viterbi returned
    labelOrder,           \* iteration order of the label-keyed dictionaries
    guessRot              \* iteration order of pos_guesses (a rotation)

ivars == <<corpus, queue, rules, terminal_symbols, nonterminal_symbols,
           start_symbol, reverse_lookup, parts_of_speech, pos_copy, ipc>>
pvars == <<grammar, tokens, chart, phase, index, span, begin, split, after,
           unknown_word, possible_tags, tree, labelOrder, guessRot>>
vars == <<ivars, pvars>>

---------------------------------------------------------------------------
\* Bounds of the model
MaxTrees == 2
MaxTokens == 2
MaxRotation == 1

---------------------------------------------------------------------------
\* Exact rational arithmetic standing for decimal.Decimal

RECURSIVE GCD(_, _)
GCD(a, b) == IF b = 0 THEN a ELSE GCD(b, a % b)

Abs(n) == IF n < 0 THEN -n ELSE n

Rat(n, d) ==
    LET g == GCD(Abs(n), d)
    IN  <<n \div g, d \div g>>

ZERO == Rat(0, 1)
ONE == Rat(1, 1)

RAdd(x, y) == Rat(x[1] * y[2] + y[1] * x[2], x[2] * y[2])
RMul(x, y) == Rat(x[1] * y[1], x[2] * y[2])
RDiv(x, y) == Rat(x[1] * y[2], x[2] * y[1])
RLess(x, y) == x[1] * y[2] < y[1] * x[2]

\* all permutations of a finite set, as sequences
Perms(S) ==
    {s \in [1..Cardinality(S) -> S] :
        \A i, j \in 1..Cardinality(S) : i # j => s[i] # s[j]}

\* a function with one more (or one overwritten) entry: d[k] = v
Put(d, k, v) == [x \in DOMAIN d \cup {k} |-> IF x = k THEN v ELSE d[x]]

\* a function without the entry k: del d[k]
Del(d, k) == [x \in DOMAIN d \ {k} |-> d[x]]

EmptyDict == [x \in {} |-> 0]

---------------------------------------------------------------------------
\* deduce_grammar

\* The keys of rules[node_label]: the symbolic keys TOTAL and UNKNOWN share the
\* dictionary with the child-label tuples.
TOTAL == [kind |-> "TOTAL", labels |-> <<>>]
UNKNOWN == [kind |-> "UNKNOWN", labels |-> <<>>]
ChildKey(labels) == [kind |-> "tuple", labels |-> labels]

\* The values of rules[node_label]: a number, or the (key, value) pair that
\* min(rules[...].items(), key=...) returns.
Num(r) == [isItem |-> FALSE, key |-> TOTAL, num |-> r]
Item(k, r) == [isItem |-> TRUE, key |-> k, num |-> r]

\* Tree nodes: [label, word] for a terminal node, [label, child, ...] otherwise.
Terminal(label, word) == [label |-> label, word |-> word, kids |-> <<>>]
Node(label, kids) == [label |-> label, word |-> "", kids |-> kids]

TreeSSS == Node("S", <<Terminal("S", "a"), Terminal("S", "b")>>)
TreeNN == Node("S", <<Terminal("NN", "a")>>)
TreeNN2 == Node("S", <<Terminal("NN", "a"), Terminal("NN", "a")>>)
TreeX == Node("S", <<Node("X", <<Terminal("NN", "a")>>), Terminal("X", "c")>>)
SampleTrees == {TreeSSS, TreeNN, TreeNN2, TreeX}

Corpora == UNION {[1..n -> SampleTrees] : n \in 1..MaxTrees}

RECURSIVE KidLabels(_)
KidLabels(kids) ==
    IF kids = <<>> THEN <<>>
    ELSE <<Head(kids).label>> \o KidLabels(Tail(kids))

\* lines 119-127: the child labels of a node
child_labels_of(node) ==
    IF node.kids = <<>> THEN ChildKey(<<node.word>>)
    ELSE ChildKey(KidLabels(node.kids))

\* lines 128-133: count one rule occurrence
CountRule(rs, node_label, child_labels) ==
    LET r0 == IF node_label \in DOMAIN rs THEN rs
              ELSE Put(rs, node_label,
                       Put(Put(EmptyDict, TOTAL, Num(ZERO)), UNKNOWN, Num(ONE)))
        d0 == r0[node_label]
        d1 == IF child_labels \in DOMAIN d0 THEN d0
              ELSE Put(d0, child_labels, Num(ZERO))
        d2 == Put(d1, child_labels, Num(RAdd(d1[child_labels].num, ONE)))
        d3 == Put(d2, TOTAL, Num(RAdd(d2[TOTAL].num, ONE)))
    IN  Put(r0, node_label, d3)

\* lines 114-133: one turn of the work-list loop
Pop ==
    /\ ipc = "count"
    /\ queue # <<>>
    /\ LET node == queue[Len(queue)]
           rest == SubSeq(queue, 1, Len(queue) - 1)
       IN  /\ nonterminal_symbols' = nonterminal_symbols \cup {node.label}
           /\ terminal_symbols' =
                 IF node.kids = <<>> THEN terminal_symbols \cup {node.word}
                 ELSE terminal_symbols
           /\ queue' = IF node.kids = <<>> THEN rest ELSE rest \o node.kids
           /\ rules' = CountRule(rules, node.label, child_labels_of(node))
    /\ UNCHANGED <<corpus, start_symbol, reverse_lookup, parts_of_speech,
                   pos_copy, ipc>>
    /\ UNCHANGED pvars

\* the division reaching TOTAL first and dividing it as well: every other
\* entry is then divided by one
NormalizedTotalFirst(rs) ==
    [l \in DOMAIN rs |->
        [k \in DOMAIN rs[l] |-> IF k = TOTAL THEN Num(ONE) ELSE rs[l][k]]]

\* line 137: every entry but TOTAL is divided by the total
NormalizedRules(rs) ==
    [l \in DOMAIN rs |->
        [k \in DOMAIN rs[l] |->
            IF k = TOTAL THEN rs[l][k]
            ELSE Num(RDiv(rs[l][k].num, rs[l][TOTAL].num))]]

\* lines 138-141: every entry but TOTAL is copied into the reverse lookup
ReverseLookup(rs) ==
    LET keys == UNION {DOMAIN rs[l] \ {TOTAL} : l \in DOMAIN rs}
    IN  [k \in keys |->
            [l \in {m \in DOMAIN rs : k \in DOMAIN rs[m]} |-> rs[l][k].num]]

\* lines 134-141
Normalize ==
    /\ ipc = "count"
    /\ queue = <<>>
    /\ rules' = NormalizedRules(rules)
    /\ reverse_lookup' = ReverseLookup(NormalizedRules(rules))
    /\ ipc' = "collect"
    /\ UNCHANGED <<corpus, queue, terminal_symbols, nonterminal_symbols,
                   start_symbol, parts_of_speech, pos_copy>>
    /\ UNCHANGED pvars

\* lines 142-145: the parents of every observed token
PosCandidates(rev, terminals) ==
    UNION {DOMAIN rev[ChildKey(<<t>>)] : t \in terminals}

CollectPos ==
    /\ ipc = "collect"
    /\ parts_of_speech' = PosCandidates(reverse_lookup, terminal_symbols)
    /\ pos_copy' = PosCandidates(reverse_lookup, terminal_symbols)
    /\ ipc' = "filter"
    /\ UNCHANGED <<corpus, queue, rules, terminal_symbols, nonterminal_symbols,
                   start_symbol, reverse_lookup>>
    /\ UNCHANGED pvars

\* lines 153-154: min(d.items(), key=lambda item: item[1]); the first of the
\* smallest items in the iteration order ord of d
RECURSIVE MinItemFrom(_, _, _, _)
MinItemFrom(d, ord, i, best) ==
    IF i > Len(ord) THEN best
    ELSE MinItemFrom(d, ord, i + 1,
                     IF RLess(d[ord[i]].num, d[best].num) THEN ord[i] ELSE best)

MinItem(d, ord) ==
    LET k == MinItemFrom(d, ord, 2, ord[1])
    IN  Item(k, d[k].num)

\* lines 148-157: the walk over the keys of rules[part_of_speech] in the
\* iteration order ord, from position i.  raised: the dictionary changed size
\* (del, line 150) and the iteration went on.
RECURSIVE FilterWalk(_, _, _, _)
FilterWalk(d, ord, i, deleted) ==
    IF deleted THEN [d |-> d, removed |-> FALSE, raised |-> TRUE]
    ELSE IF i > Len(ord) THEN [d |-> d, removed |-> FALSE, raised |-> FALSE]
    ELSE IF ord[i] = TOTAL THEN FilterWalk(Del(d, TOTAL), ord, i + 1, TRUE)
    ELSE IF ord[i] = UNKNOWN
         THEN FilterWalk(Put(d, UNKNOWN, MinItem(d, ord)), ord, i + 1, FALSE)
    ELSE IF Len(ord[i].labels) > 1
         THEN [d |-> d, removed |-> TRUE, raised |-> FALSE]
    ELSE FilterWalk(d, ord, i + 1, FALSE)

\* lines 146-157: the visit of one label of parts_of_speech.copy()
FilterPos ==
    /\ ipc = "filter"
    /\ \E part_of_speech \in pos_copy :
       \E ord \in Perms(DOMAIN rules[part_of_speech]) :
          LET w == FilterWalk(rules[part_of_speech], ord, 1, FALSE)
          IN  /\ rules' = Put(rules, part_of_speech, w.d)
              /\ parts_of_speech' =
                    IF w.removed THEN parts_of_speech \ {part_of_speech}
                    ELSE parts_of_speech
              /\ pos_copy' = pos_copy \ {part_of_speech}
              /\ ipc' = IF w.raised THEN "RuntimeError" ELSE "filter"
    /\ UNCHANGED <<corpus, queue, terminal_symbols, nonterminal_symbols,
                   start_symbol, reverse_lookup>>
    /\ UNCHANGED pvars

\* lines 158-164
ReturnGrammar ==
    /\ ipc = "filter"
    /\ pos_copy = {}
    /\ ipc' = "returned"
    /\ UNCHANGED <<corpus, queue, rules, terminal_symbols, nonterminal_symbols,
                   start_symbol, reverse_lookup, parts_of_speech, pos_copy>>
    /\ UNCHANGED pvars

---------------------------------------------------------------------------
\* Grammars and tokens given to cky_parser

\* [lhs -> rhs : p] as one entry of a rule list
Rule(lhs, rhs, p) == [lhs |-> lhs, rhs |-> rhs, p |-> p]

\* grammar['revrules'] of a rule list: revrules[rhs][lhs] = p
RevRules(rs) ==
    [k \in {r.rhs : r \in rs} |->
        [l \in {r.lhs : r \in {q \in rs : q.rhs = k}} |->
            (CHOOSE r \in rs : r.rhs = k /\ r.lhs = l).p]]

\* The grammar value: revrules, rules[label][UNKNOWN] (unknown), the start
\* symbol and the part-of-speech set.
MakeGrammar(rs, unk, start, pos) ==
    [revrules |-> RevRules(rs), unknown |-> unk, start_symbol |-> start,
     pos |-> pos]

EnglishRules ==
    { Rule("S", <<"NP", "VP">>, Rat(1, 2)), Rule("S", <<"VP">>, Rat(1, 4)),
      Rule("S", <<"NP">>, Rat(1, 4)),
      Rule("NP", <<"NN">>, Rat(1, 4)), Rule("NP", <<"NP", "NP">>, Rat(1, 4)),
      Rule("NP", <<"John">>, Rat(1, 4)), Rule("NP", <<"CD">>, Rat(1, 4)),
      Rule("VP", <<"sleeps">>, Rat(1, 2)), Rule("VP", <<"VP", "NP">>, Rat(1, 2)),
      Rule("NN", <<"fish">>, Rat(1, 2)), Rule("NN", <<"NN", "NN">>, Rat(1, 4)),
      Rule("NN", <<"sleeps">>, Rat(1, 4)),
      Rule("NNP", <<"John">>, Rat(1, 1)),
      Rule("CD", <<"1">>, Rat(1, 1)) }

English ==
    MakeGrammar(EnglishRules,
                [l \in {"S", "NP", "VP", "NN", "NNP", "CD"} |->
                    IF l \in {"NNP", "CD"} THEN Rat(1, 2) ELSE Rat(1, 4)],
                "S", {"NNP", "CD"})

\* the minimal grammar: S -> NP VP, NP -> John, VP -> sleeps
MinimalRules ==
    { Rule("S", <<"NP", "VP">>, Rat(1, 1)), Rule("NP", <<"John">>, Rat(1, 1)),
      Rule("VP", <<"sleeps">>, Rat(1, 1)) }

Minimal ==
    MakeGrammar(MinimalRules, [l \in {"S", "NP", "VP"} |-> Rat(1, 1)],
                "S", {"NP", "VP"})

\* a grammar with the unary cycle S -> NP, NP -> S
CyclicRules ==
    { Rule("S", <<"NP">>, Rat(1, 2)), Rule("S", <<"fish">>, Rat(1, 2)),
      Rule("NP", <<"S">>, Rat(1, 2)), Rule("NP", <<"John">>, Rat(1, 4)),
      Rule("NP", <<"NP", "NP">>, Rat(1, 4)) }

Cyclic ==
    MakeGrammar(CyclicRules, [l \in {"S", "NP"} |-> Rat(1, 4)], "S", {})

\* a grammar whose root TOP rewrites to S with probability 1
RootedRules ==
    { Rule("TOP", <<"S">>, Rat(1, 1)),
      Rule("S", <<"NP", "VP">>, Rat(1, 2)), Rule("S", <<"NP">>, Rat(3, 8)),
      Rule("S", <<"fish">>, Rat(1, 8)),
      Rule("NP", <<"fish">>, Rat(1, 2)), Rule("NP", <<"John">>, Rat(1, 2)),
      Rule("VP", <<"sleeps">>, Rat(1, 1)) }

Rooted ==
    MakeGrammar(RootedRules,
                [l \in {"TOP", "S", "NP", "VP"} |-> Rat(1, 2)], "TOP",
                {"VP"})

\* rule probabilities in (0, 1] with the probability-preserving unary cycle
\* S -> NP, NP -> S
LoopingRules ==
    { Rule("S", <<"NP">>, Rat(1, 1)), Rule("NP", <<"S">>, Rat(1, 1)),
      Rule("S", <<"fish">>, Rat(1, 2)), Rule("NP", <<"John">>, Rat(1, 2)),
      Rule("S", <<"S", "NP">>, Rat(1, 2)) }

Looping ==
    MakeGrammar(LoopingRules, [l \in {"S", "NP"} |-> Rat(1, 2)], "S", {})

Grammars == {English, Minimal, Cyclic, Rooted, Looping}

Labels == {"TOP", "S", "NP", "VP", "NN", "NNP", "CD"}

\* The iteration orders of the label-keyed dictionaries taken into account.
LabelOrders ==
    { <<"TOP", "S", "NP", "VP", "NN", "NNP", "CD">>,
      <<"CD", "NNP", "NN", "VP", "NP", "S", "TOP">> }

\* The characters of the tokens of the model
Chars(token) ==
    CASE token = "John" -> <<"J", "o", "h", "n">>
      [] token = "sleeps" -> <<"s", "l", "e", "e", "p", "s">>
      [] token = "fish" -> <<"f", "i", "s", "h">>
      [] token = "1" -> <<"1">>
      [] token = "5" -> <<"5">>
      [] token = "lion" -> <<"l", "i", "o", "n">>
      [] OTHER -> <<>>

Vocabulary == {"John", "sleeps", "fish", "1", "5", "lion"}

Sentences == UNION {[1..n -> Vocabulary] : n \in 1..MaxTokens}

---------------------------------------------------------------------------
\* rulebased_postag

Digits == {"0", "1", "2", "3", "4", "5", "6", "7", "8", "9"}
Uppercase ==
    {"A", "B", "C", "D", "E", "F", "G", "H", "I", "J", "K", "L", "M", "N",
     "O", "P", "Q", "R", "S", "T", "U", "V", "W", "X", "Y", "Z"}

\* token.endswith(suffix)
EndsWith(cs, suffix) ==
    /\ Len(suffix) <= Len(cs)
    /\ SubSeq(cs, Len(cs) - Len(suffix) + 1, Len(cs)) = suffix

\* is_number: float(token) succeeds.  Plain decimal literals: an optional
\* sign, digits, at most one point, at least one digit.
is_number(cs) ==
    LET body == IF cs # <<>> /\ cs[1] \in {"+", "-"} THEN Tail(cs) ELSE cs
        idx == 1..Len(body)
    IN  /\ \E i \in idx : body[i] \in Digits
        /\ \A i \in idx : body[i] \in Digits \cup {"."}
        /\ Cardinality({i \in idx : body[i] = "."}) <= 1

\* the entries of pos_guesses, in the order of the source text
NumGuesses == 16

GuessTags ==
    << <<"CD">>, <<"$">>, <<"JJ">>, <<"VBG", "VBN">>, <<"RB">>, <<"RBR">>,
       <<"RBS">>, <<"NN", "NNP">>, <<"JJR", "NN">>, <<"JJS", "NN", "NNP">>,
       <<"VBG", "NN", "NNP", "JJ">>, <<"NNS", "NNPS", "VBZ">>, <<"SYM">>,
       <<"NNP", "NNPS">>, <<"NNP", "JJ", "VB">>, <<"NNP", "NNPS">> >>

GuessMatches(k, cs) ==
    CASE k = 1 -> is_number(cs)
      [] k = 2 -> cs \in {<<"EUR">>, <<"CUR">>, <<"CENT">>, <<"GBP">>, <<"LIRA">>}
      [] k = 3 -> EndsWith(cs, <<"a", "b", "l", "e">>)
      [] k = 4 -> EndsWith(cs, <<"e", "d">>)
      [] k = 5 -> EndsWith(cs, <<"y">>)
      [] k = 6 -> EndsWith(cs, <<"i", "e", "r">>)
      [] k = 7 -> EndsWith(cs, <<"i", "e", "s", "t">>)
      [] k = 8 -> EndsWith(cs, <<"i", "o", "n">>)
      [] k = 9 -> EndsWith(cs, <<"e", "r">>)
      [] k = 10 -> EndsWith(cs, <<"i", "s", "t">>)
      [] k = 11 -> EndsWith(cs, <<"i", "n", "g">>)
      [] k = 12 -> EndsWith(cs, <<"s">>)
      [] k = 13 -> Len(cs) = 1
      [] k = 14 -> cs # <<>> /\ cs[1] \in Uppercase
      [] k = 15 -> \E i \in 1..Len(cs) : cs[i] = "-"
      [] OTHER -> TRUE

\* pos_guesses.items(): the entries of the dictionary in its iteration
\* order, the source order rotated by rot
GuessItems(rot) == [i \in 1..NumGuesses |-> ((i + rot - 1) % NumGuesses) + 1]

RECURSIVE FirstGuess(_, _, _)
FirstGuess(items, i, cs) ==
    IF i > Len(items) THEN <<>>
    ELSE IF GuessMatches(items[i], cs) THEN GuessTags[items[i]]
    ELSE FirstGuess(items, i + 1, cs)

\* lines 212-216
rulebased_postag(token, rot) == FirstGuess(GuessItems(rot), 1, Chars(token))

---------------------------------------------------------------------------
\* The chart

\* chartItem = namedtuple("chartItem", "prob split children")
chartItem(prob, sp, children) ==
    [prob |-> prob, split |-> sp, children |-> children]

\* line 236: the default factory of a chart cell
DefaultItem == chartItem(Rat(-1, 1), 0, <<":(">>)

\* chart[begin, end] of the outer defaultdict
CellAt(ch, b, e) == IF <<b, e>> \in DOMAIN ch THEN ch[<<b, e>>] ELSE EmptyDict

\* reading cell[label] of the inner defaultdict inserts the default item
Touch(cell, label) ==
    IF label \in DOMAIN cell THEN cell ELSE Put(cell, label, DefaultItem)

\* the keys of a label-keyed dictionary in its iteration order
RECURSIVE InOrder(_, _)
InOrder(order, S) ==
    IF order = <<>> THEN <<>>
    ELSE IF Head(order) \in S THEN <<Head(order)>> \o InOrder(Tail(order), S)
    ELSE InOrder(Tail(order), S)

KeysOf(d) == InOrder(labelOrder, DOMAIN d)

\* the comparison made non-strict: an equal candidate replaces the entry
BetterOrEqual(prob, old) == ~RLess(prob, old)

\* lines 229, 243, 268: the comparison that lets a candidate replace an entry
Better(prob, old) == RLess(old, prob)

\* the write made without the comparison
OfferAlways(cell, label, item) ==
    [cell |-> Put(cell, label, item), added |-> label \notin DOMAIN cell]

\* lines 229-231, 243-245, 267-270: read the entry, replace it if the
\* candidate is better
Offer(cell, label, item) ==
    LET c == Touch(cell, label)
    IN  IF Better(item.prob, c[label].prob)
        THEN [cell |-> Put(c, label, item), added |-> TRUE]
        ELSE [cell |-> c, added |-> FALSE]

---------------------------------------------------------------------------
\* check_unaries

\* lines 227-231: the parents A of B, from position i of their iteration order
RECURSIVE UnaryParents(_, _, _, _, _, _)
UnaryParents(revrules, acc, B, parents, i, end) ==
    IF i > Len(parents) THEN acc
    ELSE LET A == parents[i]
             prob == RMul(revrules[<<B>>][A], acc.cell[B].prob)
             o == Offer(acc.cell, A, chartItem(prob, end, <<B>>))
         IN  UnaryParents(revrules,
                          [cell |-> o.cell, added |-> acc.added \/ o.added],
                          B, parents, i + 1, end)

\* lines 225-231: the labels B of the cell, from position i of keys()
RECURSIVE UnaryKeys(_, _, _, _, _)
UnaryKeys(revrules, acc, keys, i, end) ==
    IF i > Len(keys) THEN acc
    ELSE LET B == keys[i]
         IN  UnaryKeys(revrules,
                       IF <<B>> \in DOMAIN revrules
                       THEN UnaryParents(revrules, acc, B,
                                         KeysOf(revrules[<<B>>]), 1, end)
                       ELSE acc,
                       keys, i + 1, end)

\* a pass that never sets added: the while loop ends after one pass
UnaryPassOnce(g, cell, end) ==
    [cell |-> UnaryKeys(g.revrules, [cell |-> cell, added |-> FALSE],
                        KeysOf(cell), 1, end).cell,
     added |-> FALSE]

\* lines 224-231: one pass of the while loop over the cell
UnaryPassOf(g, cell, end) ==
    UnaryKeys(g.revrules, [cell |-> cell, added |-> FALSE], KeysOf(cell), 1, end)

\* lines 222-231: the passes are repeated until one adds nothing
RECURSIVE check_unaries(_, _, _)
check_unaries(g, cell, end) ==
    LET r == UnaryPassOf(g, cell, end)
    IN  IF r.added THEN check_unaries(g, r.cell, end) ELSE r.cell

---------------------------------------------------------------------------
\* cky_parser

\* lines 242-245: the parents of a known token
RECURSIVE SeedKnown(_, _, _, _, _, _)
SeedKnown(revrules, cell, token, roots, i, end) ==
    IF i > Len(roots) THEN cell
    ELSE SeedKnown(revrules,
                   Offer(cell, roots[i],
                         chartItem(revrules[<<token>>][roots[i]], end,
                                   <<token>>)).cell,
                   token, roots, i + 1, end)

\* lines 250-253: the tags guessed for an unknown token; rules[tag] raises
\* KeyError for a tag that is no key of rules
RECURSIVE SeedUnknown(_, _, _, _, _, _)
SeedUnknown(g, cell, token, tags, i, end) ==
    IF i > Len(tags) THEN [cell |-> cell, raised |-> FALSE]
    ELSE IF tags[i] \notin DOMAIN g.unknown THEN [cell |-> cell, raised |-> TRUE]
    ELSE SeedUnknown(g,
                     Put(cell, tags[i],
                         chartItem(g.unknown[tags[i]], end, <<token>>)),
                     token, tags, i + 1, end)

\* line 241
IsKnown(g, token) == <<token>> \in DOMAIN g.revrules

\* lines 240-253: the seeding of cell (index, index + 1)
SeedToken ==
    /\ phase = "seed"
    /\ LET token == tokens[index + 1]
           cell == CellAt(chart, index, index + 1)
           tags == rulebased_postag(token, guessRot)
           u == SeedUnknown(grammar, cell, token, tags, 1, index + 1)
       IN  IF IsKnown(grammar, token)
           THEN /\ chart' = [chart EXCEPT ![<<index, index + 1>>] =
                       SeedKnown(grammar.revrules, cell, token,
                                 KeysOf(grammar.revrules[<<token>>]), 1,
                                 index + 1)]
                /\ phase' = "unary"
                /\ UNCHANGED <<unknown_word, possible_tags>>
           ELSE /\ chart' = [chart EXCEPT ![<<index, index + 1>>] = u.cell]
                /\ unknown_word' = token
                /\ possible_tags' = tags
                /\ phase' = IF u.raised THEN "KeyError" ELSE "unary"
    /\ begin' = index
    /\ span' = 1
    /\ after' = "seed"
    /\ UNCHANGED <<grammar, tokens, index, split, tree, labelOrder, guessRot>>
    /\ UNCHANGED ivars

\* the span loop stopping one length short
nwordsShort == Len(tokens)

\* line 255
nwords == Len(tokens) + 1

\* lines 223-231 and the return of check_unaries into lines 240, 256-259:
\* one pass over cell (begin, begin + span); the loop ends with the first
\* pass that adds nothing
UnaryPass ==
    /\ phase = "unary"
    /\ LET end == begin + span
           r == UnaryPassOf(grammar, CellAt(chart, begin, end), end)
       IN  /\ chart' = [chart EXCEPT ![<<begin, end>>] = r.cell]
           /\ IF r.added
              THEN UNCHANGED <<phase, index, span, begin, split>>
              ELSE IF after = "seed"
              THEN IF index + 1 < Len(tokens)
                   THEN /\ phase' = "seed"
                        /\ index' = index + 1
                        /\ UNCHANGED <<span, begin, split>>
                   ELSE /\ index' = index + 1
                        /\ IF 2 < nwords
                           THEN /\ phase' = "binary"
                                /\ span' = 2
                                /\ begin' = 0
                                /\ split' = 1
                           ELSE /\ phase' = "returned"
                                /\ UNCHANGED <<span, begin, split>>
              ELSE /\ UNCHANGED index
                   /\ IF begin + 1 < nwords - span
                      THEN /\ phase' = "binary"
                           /\ begin' = begin + 1
                           /\ split' = begin + 2
                           /\ UNCHANGED span
                      ELSE IF span + 1 < nwords
                      THEN /\ phase' = "binary"
                           /\ span' = span + 1
                           /\ begin' = 0
                           /\ split' = 1
                      ELSE /\ phase' = "returned"
                           /\ UNCHANGED <<span, begin, split>>
    /\ UNCHANGED <<grammar, tokens, after, unknown_word, possible_tags, tree,
                   labelOrder, guessRot>>
    /\ UNCHANGED ivars

\* lines 265-270: the parents of (B, C), from position i of their order
RECURSIVE BinaryRoots(_, _, _, _, _, _, _, _)
BinaryRoots(revrules, cell, B, C, pBC, roots, i, sp) ==
    IF i > Len(roots) THEN cell
    ELSE BinaryRoots(revrules,
                     Offer(cell, roots[i],
                           chartItem(RMul(pBC, revrules[<<B, C>>][roots[i]]),
                                     sp, <<B, C>>)).cell,
                     B, C, pBC, roots, i + 1, sp)

\* lines 260-270: the pairs (B, C) of the two sub-cells, from position i of
\* their enumeration
RECURSIVE BinaryPairs(_, _, _, _, _, _, _)
BinaryPairs(revrules, cell, left, right, pairs, i, sp) ==
    IF i > Len(pairs) THEN cell
    ELSE LET B == pairs[i][1]
             C == pairs[i][2]
         IN  BinaryPairs(revrules,
                         IF <<B, C>> \in DOMAIN revrules
                         THEN BinaryRoots(revrules, cell, B, C,
                                          RMul(left[B].prob, right[C].prob),
                                          KeysOf(revrules[<<B, C>>]), 1, sp)
                         ELSE cell,
                         left, right, pairs, i + 1, sp)

\* for B in left: for C in right, as one sequence of pairs
PairsOf(left, right) ==
    LET bs == KeysOf(left)
        cs == KeysOf(right)
    IN  [k \in 1..(Len(bs) * Len(cs)) |->
            <<bs[((k - 1) \div Len(cs)) + 1], cs[((k - 1) % Len(cs)) + 1]>>]

\* lines 259-270: one split of cell (begin, begin + span)
BinarySplit ==
    /\ phase = "binary"
    /\ LET end == begin + span
           left == CellAt(chart, begin, split)
           right == CellAt(chart, split, end)
       IN  /\ chart' = [chart EXCEPT ![<<begin, end>>] =
                  BinaryPairs(grammar.revrules, CellAt(chart, begin, end),
                              left, right, PairsOf(left, right), 1, split)]
           /\ IF split + 1 < end
              THEN /\ split' = split + 1
                   /\ UNCHANGED <<phase, after>>
              ELSE /\ phase' = "unary"
                   /\ after' = "binary"
                   /\ UNCHANGED split
    /\ UNCHANGED <<grammar, tokens, index, span, begin, unknown_word,
                   possible_tags, tree, labelOrder, guessRot>>
    /\ UNCHANGED ivars

---------------------------------------------------------------------------
\* viterbi

\* the values viterbi returns: a bare symbol, or a list [root, child, ...]
Bare(sym) == [bare |-> TRUE, sym |-> sym, kids |-> <<>>]
List(sym, kids) == [bare |-> FALSE, sym |-> sym, kids |-> kids]

\* line 278: max(cell.items(), key=lambda item: item[1].prob), the first of
\* the greatest items in the iteration order
RECURSIVE MaxKeyFrom(_, _, _, _)
MaxKeyFrom(cell, keys, i, best) ==
    IF i > Len(keys) THEN best
    ELSE MaxKeyFrom(cell, keys, i + 1,
                    IF RLess(cell[best].prob, cell[keys[i]].prob)
                    THEN keys[i] ELSE best)

MaxKey(cell) == MaxKeyFrom(cell, KeysOf(cell), 2, KeysOf(cell)[1])

\* line 278: the item viterbi reads for root in the cell
DataOf(cell, root) == cell[MaxKey(cell)]

\* a one-element list [root] in place of the bare root
NotInCellAsList(root) == List(root, <<>>)

\* line 295: the value returned for a root that is no key of the cell
NotInCell(root) == Bare(root)

\* lines 275-295
RECURSIVE viterbi(_, _, _, _)
viterbi(ch, root, b, e) ==
    IF root \in DOMAIN CellAt(ch, b, e)
    THEN LET data == DataOf(CellAt(ch, b, e), root)
         IN  IF Len(data.children) = 1
             THEN IF data.children[1] = root
                  THEN List(root, <<Bare(data.children[1])>>)
                  ELSE List(root, <<viterbi(ch, data.children[1], b, e)>>)
             ELSE List(root, <<viterbi(ch, data.children[1], b, data.split),
                               viterbi(ch, data.children[2], data.split, e)>>)
    ELSE NotInCell(root)

\* lines 324-325: viterbi(chart, g['start_symbol'], 0, len(tokens))
Extract ==
    /\ phase = "returned"
    /\ tree' = viterbi(chart, grammar.start_symbol, 0, Len(tokens))
    /\ phase' = "extracted"
    /\ UNCHANGED <<grammar, tokens, chart, index, span, begin, split, after,
                   unknown_word, possible_tags, labelOrder, guessRot>>
    /\ UNCHANGED ivars

---------------------------------------------------------------------------
\* Specifications

NoTree == Bare("")

IdleInduce ==
    /\ corpus = <<>>
    /\ queue = <<>>
    /\ rules = EmptyDict
    /\ terminal_symbols = {}
    /\ nonterminal_symbols = {}
    /\ start_symbol = ""
    /\ reverse_lookup = EmptyDict
    /\ parts_of_speech = {}
    /\ pos_copy = {}
    /\ ipc = "idle"

IdleParse ==
    /\ grammar = Minimal
    /\ tokens = <<>>
    /\ chart = EmptyDict
    /\ phase = "idle"
    /\ index = 0
    /\ span = 0
    /\ begin = 0
    /\ split = 0
    /\ after = "seed"
    /\ unknown_word = ""
    /\ possible_tags = <<>>
    /\ tree = NoTree
    /\ labelOrder = <<>>
    /\ guessRot = 0

\* lines 107-113
InitInduce ==
    /\ corpus \in Corpora
    /\ queue = corpus
    /\ rules = EmptyDict
    /\ terminal_symbols = {}
    /\ nonterminal_symbols = {}
    /\ start_symbol = corpus[1].label
    /\ reverse_lookup = EmptyDict
    /\ parts_of_speech = {}
    /\ pos_copy = {}
    /\ ipc = "count"
    /\ IdleParse

NextInduce == Pop \/ Normalize \/ CollectPos \/ FilterPos \/ ReturnGrammar

SpecInduce == InitInduce /\ [][NextInduce]_vars

\* lines 235-238
Init ==
    /\ grammar \in Grammars
    /\ tokens \in Sentences
    /\ labelOrder \in LabelOrders
    /\ guessRot \in 0..MaxRotation
    /\ chart = [c \in {be \in (0..Len(tokens)) \X (0..Len(tokens)) :
                              be[1] < be[2]} |-> EmptyDict]
    /\ phase = "seed"
    /\ index = 0
    /\ span = 0
    /\ begin = 0
    /\ split = 0
    /\ after = "seed"
    /\ unknown_word = ""
    /\ possible_tags = <<>>
    /\ tree = NoTree
    /\ IdleInduce

Next == SeedToken \/ UnaryPass \/ BinarySplit \/ Extract

Spec == Init /\ [][Next]_vars

---------------------------------------------------------------------------
\* Properties of deduce_grammar (specification SpecInduce)

\* the number of nodes of tree t with the given label and child labels
RECURSIVE Occurrences(_, _, _)
RECURSIVE OccurrencesIn(_, _, _)
Occurrences(t, label, key) ==
    (IF t.label = label /\ child_labels_of(t) = key THEN 1 ELSE 0)
        + OccurrencesIn(t.kids, label, key)
OccurrencesIn(ts, label, key) ==
    IF ts = <<>> THEN 0
    ELSE Occurrences(Head(ts), label, key) + OccurrencesIn(Tail(ts), label, key)

\* the number of nodes of tree t with the given label
RECURSIVE LabelCount(_, _)
RECURSIVE LabelCountIn(_, _)
LabelCount(t, label) ==
    (IF t.label = label THEN 1 ELSE 0) + LabelCountIn(t.kids, label)
LabelCountIn(ts, label) ==
    IF ts = <<>> THEN 0
    ELSE LabelCount(Head(ts), label) + LabelCountIn(Tail(ts), label)

\* the recorded child-label sequences of a parent: its keys but TOTAL, UNKNOWN
RecordedKeys(label) == {k \in DOMAIN rules[label] : k.kind = "tuple"}

RECURSIVE SumOver(_, _)
SumOver(d, keys) ==
    IF keys = {} THEN ZERO
    ELSE LET k == CHOOSE x \in keys : TRUE
         IN  RAdd(d[k].num, SumOver(d, keys \ {k}))

Normalized == ipc \in {"collect", "filter", "returned", "RuntimeError"}

\* C4: for every parent label, each recorded child-label sequence has
\* probability (count of the rule) / (total count of the parent), and the
\* probabilities of the parent's recorded child-label sequences sum to 1.
C4_NormalizedProbabilities ==
    Normalized =>
        \A label \in DOMAIN rules :
            /\ \A k \in RecordedKeys(label) :
                  rules[label][k] =
                      Num(Rat(OccurrencesIn(corpus, label, k),
                              LabelCountIn(corpus, label)))
            /\ SumOver(rules[label], RecordedKeys(label)) = ONE

\* a grammar has been returned in which a parent has several rules, one of
\* them seen more than once
C4_Witness ==
    /\ ipc = "returned"
    /\ \E label \in DOMAIN rules :
          /\ Cardinality(RecordedKeys(label)) >= 2
          /\ \E k \in RecordedKeys(label) : OccurrencesIn(corpus, label, k) >= 2

\* the labels the part-of-speech filter has visited and left in the set
Kept == IF Normalized THEN parts_of_speech \ pos_copy ELSE {}

MinOwn(label) ==
    CHOOSE x \in {rules[label][k].num : k \in RecordedKeys(label)} :
        \A y \in {rules[label][k].num : k \in RecordedKeys(label)} : ~RLess(y, x)

\* C5: for every part-of-speech label the unknown-word fallback stored for
\* the label is the minimum of the normalized probabilities of the label's
\* own recorded rules; TOTAL and UNKNOWN take no part in the minimum.
C5_FallbackIsMinimum ==
    \A label \in Kept : rules[label][UNKNOWN] = Num(MinOwn(label))

\* a recorded rule whose single child is a token
IsLexical(k) ==
    /\ Len(k.labels) = 1
    /\ k.labels[1] \in terminal_symbols \ nonterminal_symbols

\* C6: a label is in the part-of-speech set only if all of its recorded
\* rules are lexical; a label with a rule over nonterminal children, a unary
\* one included, is not in the set.
C6_PartsOfSpeechOnlyLexical ==
    \A label \in Kept : \A k \in RecordedKeys(label) : IsLexical(k)

\* C8: revrules is the transpose of the rule table restricted to the
\* recorded child-label sequences: revrules[c][p] is defined exactly when c
\* is a recorded child-label sequence of p, and equals rules[p][c]; TOTAL and
\* UNKNOWN are no keys of revrules.
C8_ReverseIsTranspose ==
    ipc = "returned" =>
        /\ \A c \in DOMAIN reverse_lookup :
              /\ c.kind = "tuple"
              /\ \A p \in DOMAIN reverse_lookup[c] :
                    /\ p \in DOMAIN rules
                    /\ c \in RecordedKeys(p)
                    /\ rules[p][c] = Num(reverse_lookup[c][p])
        /\ \A p \in DOMAIN rules : \A c \in RecordedKeys(p) :
              /\ c \in DOMAIN reverse_lookup
              /\ p \in DOMAIN reverse_lookup[c]

---------------------------------------------------------------------------
\* Properties of cky_parser, check_unaries, rulebased_postag and viterbi
\* (specification Spec)

Returned == phase \in {"returned", "extracted"}
FullCell == CellAt(chart, 0, Len(tokens))
StartAbsent == grammar.start_symbol \notin DOMAIN FullCell

\* The tree that reading, at every node, the item stored for the node's own
\* label gives.
RECURSIVE FromOwnItem(_, _, _, _)
FromOwnItem(t, L, b, e) ==
    IF L \notin DOMAIN CellAt(chart, b, e) THEN t = Bare(L)
    ELSE LET it == CellAt(chart, b, e)[L]
         IN  /\ ~t.bare
             /\ t.sym = L
             /\ IF Len(it.children) = 1
                THEN /\ Len(t.kids) = 1
                     /\ IF it.children[1] = L THEN t.kids[1] = Bare(L)
                        ELSE FromOwnItem(t.kids[1], it.children[1], b, e)
                ELSE /\ Len(t.kids) = 2
                     /\ FromOwnItem(t.kids[1], it.children[1], b, it.split)
                     /\ FromOwnItem(t.kids[2], it.children[2], it.split, e)

\* C1: every node of the tree viterbi returns is built from the chart item
\* stored for that node's own label over the node's span: a single child B
\* other than the label gives a unary node over the same span, two children
\* B, C give the sub-trees of (B, begin, split) and (C, split, end).
C1_NodesFromOwnItem ==
    phase = "extracted" =>
        FromOwnItem(tree, grammar.start_symbol, 0, Len(tokens))

Score(b, e, L) == CellAt(chart, b, e)[L].prob

LexicalCandidates(A, b, e) ==
    IF e # b + 1 THEN {}
    ELSE LET token == tokens[b + 1]
         IN  IF <<token>> \in DOMAIN grammar.revrules
             THEN {grammar.revrules[<<token>>][l] :
                      l \in {A} \cap DOMAIN grammar.revrules[<<token>>]}
             ELSE {grammar.unknown[t] :
                      t \in {x \in DOMAIN grammar.unknown :
                                /\ x = A
                                /\ \E i \in 1..Len(rulebased_postag(token, guessRot)) :
                                      rulebased_postag(token, guessRot)[i] = x}}

BinaryCandidates(A, b, e) ==
    UNION { UNION { UNION {
        IF <<B, C>> \in DOMAIN grammar.revrules
           /\ A \in DOMAIN grammar.revrules[<<B, C>>]
        THEN {RMul(RMul(Score(b, s, B), Score(s, e, C)),
                   grammar.revrules[<<B, C>>][A])}
        ELSE {}
        : C \in DOMAIN CellAt(chart, s, e) }
        : B \in DOMAIN CellAt(chart, b, s) }
        : s \in (b + 1)..(e - 1) }

UnaryCandidates(A, b, e) ==
    UNION {
        IF <<B>> \in DOMAIN grammar.revrules
           /\ A \in DOMAIN grammar.revrules[<<B>>]
        THEN {RMul(grammar.revrules[<<B>>][A], Score(b, e, B))}
        ELSE {}
        : B \in DOMAIN CellAt(chart, b, e) }

Candidates(A, b, e) ==
    LexicalCandidates(A, b, e) \cup BinaryCandidates(A, b, e)
        \cup UnaryCandidates(A, b, e)

IsMaxOf(x, S) == x \in S /\ \A y \in S : ~RLess(x, y)

Spans == {be \in (0..Len(tokens)) \X (0..Len(tokens)) : be[1] < be[2]}

SeededUnknown ==
    {i \in 0..(Len(tokens) - 1) :
        /\ ~IsKnown(grammar, tokens[i + 1])
        /\ i < index \/ (i = index /\ phase \in {"unary", "KeyError"})}

TagSet(token) ==
    {rulebased_postag(token, guessRot)[k] :
        k \in 1..Len(rulebased_postag(token, guessRot))}

\* C7: for a token that is no key of the reverse-rule index, the cell is
\* seeded only with the tagger candidates that are in the part-of-speech set,
\* each with its unknown-fallback probability; any other candidate is skipped
\* without an error and adds no entry.
C7_OnlyPartsOfSpeechSeeded ==
    /\ phase # "KeyError"
    /\ \A i \in SeededUnknown :
          \A L \in DOMAIN CellAt(chart, i, i + 1) :
              CellAt(chart, i, i + 1)[L].children = <<tokens[i + 1]>> =>
                  /\ L \in grammar.pos
                  /\ L \in TagSet(tokens[i + 1])
                  /\ Score(i, i + 1, L) = grammar.unknown[L]

\* The candidates of the first predicate that matches, in the priority order
\* numeric, currency, -able, -ed, -y, -ier, -iest, -ion, -er, -ist, -ing, -s,
\* length 1, initial uppercase, hyphen, default.
PriorityTags(cs) ==
    GuessTags[CHOOSE k \in 1..NumGuesses :
                 /\ GuessMatches(k, cs)
                 /\ \A j \in 1..(k - 1) : ~GuessMatches(j, cs)]

\* C9: rulebased_postag returns the candidates of the first matching
\* predicate in the fixed priority order, whatever the iteration order of the
\* predicate table.
C9_FixedPriorityOrder ==
    unknown_word # "" => possible_tags = PriorityTags(Chars(unknown_word))

\* the cells on which check_unaries has completed
Closed(b, e) ==
    \/ Returned
    \/ e - b = 1 /\ b < index
    \/ e - b >= 2 /\ (e - b < span \/ (e - b = span /\ b < begin))

\* C10: running check_unaries again on a cell on which it has completed
\* leaves the set of labels and every item unchanged.
C10_UnaryClosureIdempotent ==
    phase \in {"seed", "unary", "binary", "returned", "extracted"} =>
        \A be \in Spans :
            Closed(be[1], be[2]) =>
                check_unaries(grammar, CellAt(chart, be[1], be[2]), be[2])
                    = CellAt(chart, be[1], be[2])

\* check_unaries has completed on a cell whose closure took a chain of two
\* unary rules (a label derived from a label that was itself derived)
C10_Witness ==
    \E be \in Spans :
        /\ Closed(be[1], be[2])
        /\ \E A \in DOMAIN CellAt(chart, be[1], be[2]) :
              LET it == CellAt(chart, be[1], be[2])[A]
              IN  /\ Len(it.children) = 1
                  /\ it.children[1] \in DOMAIN CellAt(chart, be[1], be[2])
                  /\ LET jt == CellAt(chart, be[1], be[2])[it.children[1]]
                     IN  /\ Len(jt.children) = 1
                         /\ jt.children[1] \in DOMAIN CellAt(chart, be[1], be[2])

\* no entry of c is missing from d or lower in d
CellLeq(c, d) ==
    \A l \in DOMAIN c : l \in DOMAIN d /\ ~RLess(d[l].prob, c[l].prob)

\* d is strictly above c: some entry of d is new or strictly higher
CellBelow(c, d) ==
    /\ CellLeq(c, d)
    /\ \E l \in DOMAIN d : l \notin DOMAIN c \/ RLess(c[l].prob, d[l].prob)

\* C11: check_unaries terminates on every cell, for every grammar with rule
\* probabilities in (0, 1], unary cycles included: a pass after which the
\* loop repeats leaves the cell strictly above the cell it found, so no cell
\* value comes back and the passes over a cell, whose values are finitely
\* many, come to an end.
C11_UnaryClosureTerminates ==
    [][(phase = "unary" /\ phase' = "unary")
          => /\ begin' = begin /\ span' = span
             /\ CellBelow(CellAt(chart, begin, begin + span),
                          CellAt(chart', begin, begin + span))]_vars

\* check_unaries has been left on a cell that holds both labels of the
\* probability-preserving cycle S -> NP, NP -> S
C11_Witness ==
    /\ grammar = Looping
    /\ \E be \in Spans :
          /\ Closed(be[1], be[2])
          /\ {"S", "NP"} \subseteq DOMAIN CellAt(chart, be[1], be[2])

RECURSIVE Leaves(_)
Leaves(t) ==
    IF t.bare THEN <<t.sym>>
    ELSE IF Len(t.kids) = 1 THEN Leaves(t.kids[1])
    ELSE Leaves(t.kids[1]) \o Leaves(t.kids[2])

\* C13: when the start symbol is present in the full-span cell, the leaves of
\* the tree returned by viterbi(chart, start_symbol, 0, len(tokens)), read
\* left to right, are exactly the input tokens in their input order.
C13_LeavesAreTokens ==
    (phase = "extracted" /\ ~StartAbsent) => Leaves(tree) = tokens

====
